---- MODULE Spec2Model ----
(***************************************************************************)
(* The frame-processing state machine of webcam_yolo_vigia: the headless   *)
(* loop (headless.py, HeadlessMotionDetector.run), the GUI loop            *)
(* (GUI_webcam.py, WebcamApp.update) and the alert throttle they share     *)
(* (tts_player.py, play_gtts_text).                                        *)
(*                                                                         *)
(* Time is counted in ticks of 0.1 s: 0.2 s is 2 ticks, 20 s is 200.       *)
(* A detection is modelled by its label; confidence and bounding box play  *)
(* no part in the control flow.                                            *)
(***************************************************************************)
EXTENDS Integers, Sequences, FiniteSets, TLC

\* ------------------------------------------------------------ constants
\* headless.py:167 / GUI_webcam.py:207: 0.2 s between person/pet saves
PERSON_SAVE_INTERVAL == 2
\* headless.py:182: 0.2 s between motion saves
MOTION_SAVE_INTERVAL == 2
\* headless.py:136 / GUI_webcam.py:153: current_time + 20
MOTION_DISABLE == 200
\* headless.py:134: cooldown=3
PERSON_COOLDOWN_HEADLESS == 30
\* headless.py:139: cooldown=3
ANIMAL_COOLDOWN_HEADLESS == 30
\* GUI_webcam.py:150: cooldown=5
PERSON_COOLDOWN_GUI == 50
\* headless.py:188 / GUI_webcam.py:179: cooldown=10
MOTION_COOLDOWN == 100
\* headless.py:67 / GUI_webcam.py:73: self.frame_skip = 5
FRAME_SKIP == 5

allowed_labels == {"person", "cat", "dog"}

\* --------------------------------------------------------------- bounds
\* frames processed in one run
MaxFrames == 6
\* calls of the detector in one run
MaxDetectorRuns == 3
\* frames of a run, counted from the first, in which a write of a snapshot may fail
MaxFaultFrames == 2
\* the clock when the program starts: every timestamp initialised to 0
\* (the epoch) is further in the past than any cooldown
StartTime == 200
\* ticks a run lasts at most
MaxElapsed == 204

\* frame_skip values tried (the source sets 5; the attribute is meant to be tuned)
FrameSkips == {1, 2, FRAME_SKIP}
\* ticks between two readings of the clock by consecutive frames
Deltas == {0, PERSON_SAVE_INTERVAL, MOTION_DISABLE}
\* ticks between the frame's reading of the clock and play_gtts_text's own
TtsDelays == {0, 2}
\* batches the detector can return: nothing, a label that is not allowed,
\* one entry of each allowed label, and two entries in either order
RawBatches ==
    {<<>>, <<"car">>, <<"person">>, <<"cat">>, <<"dog">>,
     <<"cat", "person">>, <<"person", "dog">>, <<"car", "person">>}
Categories == {"person", "animal", "motion"}

VARIABLES
    mode,                   \* "headless" (headless.py) or "gui" (GUI_webcam.py)
    status,                 \* "running", "stopped" (loop left), "crashed" (exception left the frame)
    released,               \* self.vid.release() has been called
    clock,                  \* the last reading of time.time()
    frame_skip,
    frame_count,
    persistent_detections,
    motion_enabled,
    motion_disabled_until,
    last_saved_times,       \* [motion, person]
    last_audio_time,        \* tts_player.last_audio_time
    last_fired,             \* history: per category, when an alert of it last fired
    obs,                    \* history: what the last step did
    source,                 \* the frame source: "live", or "exhausted" (every further read fails)
    audio                   \* the audio files on disk and the playback threads

vars == <<mode, status, released, clock, frame_skip, frame_count,
          persistent_detections, motion_enabled, motion_disabled_until,
          last_saved_times, last_audio_time, last_fired, obs, source, audio>>

NoObs == [kind |-> "none"]

\* tts_player.py:25,30: no audio file on disk, no call under way, no thread
NoAudio == [original |-> FALSE, adjusted |-> 0, call |-> [pc |-> "idle", at |-> 0, id |-> 0],
            jobs |-> <<>>]

Init ==
    /\ mode \in {"headless", "gui"}
    /\ status = "running"
    /\ released = FALSE
    /\ clock = StartTime
    /\ frame_skip \in FrameSkips
    /\ frame_count = 0
    /\ persistent_detections = <<>>
    /\ motion_enabled = TRUE
    /\ motion_disabled_until = 0
    /\ last_saved_times = [motion |-> 0, person |-> 0]
    /\ last_audio_time = 0
    /\ last_fired = [c \in Categories |-> 0]
    /\ obs = NoObs
    /\ source = "live"
    /\ audio = NoAudio

\* ------------------------------------------------- one frame, step by step
\* The working state of one pass through the loop body: the fields of self the
\* body reads and writes, the local current_time (now), the latest reading of
\* the clock (t), whether an exception has left the body (aborted), and the
\* record of the calls made to the collaborators.
Begin(now) ==
    [now |-> now, t |-> now, aborted |-> FALSE,
     pd |-> persistent_detections,
     en |-> motion_enabled,
     until |-> motion_disabled_until,
     lst |-> last_saved_times,
     lat |-> last_audio_time,
     lf |-> last_fired,
     detector_invoked |-> FALSE, detector_failed |-> FALSE, returned |-> <<>>,
     gate_set |-> FALSE, gate_reset |-> FALSE, reenabled |-> FALSE,
     alerts |-> <<>>,
     motion_sensed |-> FALSE, significant |-> FALSE,
     motion_saves |-> 0, motion_save_boxes |-> 0,
     person_saves |-> 0, person_save_boxes |-> 0,
     boxes |-> 0,
     write |-> "ok", save_failed |-> FALSE]

\* (mutant) the cooldown also blocks the call made exactly when it ends
ThrottledInclusive(now, last, cooldown) == now - last <= cooldown

\* tts_player.py:21: the call returns at once while the cooldown runs
Throttled(now, last, cooldown) == now - last < cooldown

\* tts_player.py:10-54. a.d: ticks since the previous reading of the clock;
\* a.out: "ok", or "raise" when the synthesis (tts_player.py:26-27) raises,
\* before a file is complete, a thread started or last_audio_time written.
\* (One draw serves both calls of a frame: the second is made only after the
\* first returned, and then finds the cooldown running if the first one fired.)
\* Each call is recorded with the files it wrote (the original and the adjusted
\* audio) and whether it started the playback thread.
play_gtts_text(s, category, cooldown, a) ==
    LET t == s.t + a.d
        req(res, files, thread) ==
            [cat |-> category, at |-> t, cooldown |-> cooldown, res |-> res,
             files |-> files, thread |-> thread]
    IN  IF Throttled(t, s.lat, cooldown)
        THEN [s EXCEPT !.t = t, !.alerts = Append(@, req("suppressed", 0, FALSE))]
        ELSE IF a.out = "raise"
        THEN [s EXCEPT !.t = t, !.alerts = Append(@, req("raised", 0, FALSE)),
                       !.aborted = TRUE]
        ELSE [s EXCEPT !.t = t, !.alerts = Append(@, req("fired", 2, TRUE)),
                       !.lat = t, !.lf[category] = t]

\* (mutant) the detector runs on the last frame of each group instead of the first
IsDetectorFrameOffByOne(fc, n) == (fc + 1) % n = 0

\* headless.py:103 / GUI_webcam.py:117
IsDetectorFrame(fc, n) == fc % n = 0

\* headless.py:116 / GUI_webcam.py:131
FilterAllowed(raw) == SelectSeq(raw, LAMBDA l : l \in allowed_labels)

\* (mutant) the cache is not cleared before the new detections are appended
RunDetectorKeepsOld(s, det) ==
    IF ~det.ok
    THEN [s EXCEPT !.detector_invoked = TRUE, !.detector_failed = TRUE, !.aborted = TRUE]
    ELSE [s EXCEPT !.detector_invoked = TRUE, !.returned = det.batch,
                   !.pd = s.pd \o FilterAllowed(det.batch)]

\* headless.py:104-121 / GUI_webcam.py:118-136. det is the batch model(frame)
\* returns, or a failure when the call raises (before the cache is cleared).
\* returned: the labels of the boxes of the batch, as the detector gave them
RunDetector(s, det) ==
    IF ~det.ok
    THEN [s EXCEPT !.detector_invoked = TRUE, !.detector_failed = TRUE, !.aborted = TRUE]
    ELSE [s EXCEPT !.detector_invoked = TRUE, !.returned = det.batch,
                   !.pd = FilterAllowed(det.batch)]

\* (mutant) a detection inside a running window adds 20 s to the window
DisableMotionStacking(s) ==
    [s EXCEPT !.en = FALSE,
              !.until = IF ~s.en /\ s.now < s.until THEN s.until + MOTION_DISABLE
                        ELSE s.now + MOTION_DISABLE,
              !.gate_set = TRUE,
              !.gate_reset = ~s.en /\ s.until - MOTION_DISABLE < s.now /\ s.now < s.until]

\* headless.py:135-136 / GUI_webcam.py:152-153
\* (gate_reset notes that the gate was set inside a window opened earlier)
DisableMotion(s) ==
    [s EXCEPT !.en = FALSE, !.until = s.now + MOTION_DISABLE, !.gate_set = TRUE,
              !.gate_reset = ~s.en /\ s.until - MOTION_DISABLE < s.now /\ s.now < s.until]

\* headless.py:132-140: the loop leaves at the first person, cat or dog entry
RECURSIVE PresenceLoopHeadless(_, _, _)
PresenceLoopHeadless(s, i, a) ==
    IF i > Len(s.pd) THEN s
    ELSE IF s.pd[i] = "person"
    THEN LET r == play_gtts_text(s, "person", PERSON_COOLDOWN_HEADLESS, a)
         IN  IF r.aborted THEN r ELSE DisableMotion(r)
    ELSE IF s.pd[i] \in {"cat", "dog"}
    THEN play_gtts_text(s, "animal", ANIMAL_COOLDOWN_HEADLESS, a)
    ELSE PresenceLoopHeadless(s, i + 1, a)

\* GUI_webcam.py:148-157: the loop leaves at the first person entry; the
\* cat/dog branch is commented out
RECURSIVE PresenceLoopGui(_, _, _)
PresenceLoopGui(s, i, a) ==
    IF i > Len(s.pd) THEN s
    ELSE IF s.pd[i] = "person"
    THEN LET r == play_gtts_text(s, "person", PERSON_COOLDOWN_GUI, a)
         IN  IF r.aborted THEN r ELSE DisableMotion(r)
    ELSE PresenceLoopGui(s, i + 1, a)

\* headless.py:145-161: every cached detection is drawn on the frame
DrawBoxesHeadless(s) == [s EXCEPT !.boxes = Len(s.pd)]

\* headless.py:34-45 / GUI_webcam.py:36-47: s.write = "fail" when cv2.imwrite
\* returns False or raises; both are caught and printed inside save_frame
save_frame(s) == [s EXCEPT !.save_failed = @ \/ s.write = "fail"]

\* headless.py:167 / GUI_webcam.py:207
SavePersonAllowed(s) ==
    s.pd # <<>> /\ s.now - s.lst.person >= PERSON_SAVE_INTERVAL

\* (mutant) the save does not note its time
SavePersonNoStamp(s) ==
    save_frame([s EXCEPT !.person_saves = @ + 1, !.person_save_boxes = s.boxes])

\* headless.py:168-169 / GUI_webcam.py:208-209
SavePerson(s) ==
    [save_frame([s EXCEPT !.person_saves = @ + 1, !.person_save_boxes = s.boxes])
        EXCEPT !.lst.person = s.now]

SavePersonHeadless(s) == IF SavePersonAllowed(s) THEN SavePerson(s) ELSE s

\* (mutant) the gate opens again on the first frame that finds it closed
ReEnableEarly(s) == [s EXCEPT !.en = TRUE, !.reenabled = TRUE]

\* (mutant) the gate opens only after the end of the window, not at it
ReEnableStrict(s) ==
    IF s.now > s.until THEN [s EXCEPT !.en = TRUE, !.reenabled = TRUE] ELSE s

\* headless.py:191-192 / GUI_webcam.py:183-184
ReEnable(s) ==
    IF s.now >= s.until THEN [s EXCEPT !.en = TRUE, !.reenabled = TRUE] ELSE s

\* headless.py:182
SaveMotionAllowedHeadless(s, significant) ==
    significant /\ s.now - s.lst.motion >= MOTION_SAVE_INTERVAL

\* GUI_webcam.py:173
SaveMotionAllowedGui(s, significant) == significant

\* headless.py:183-188 / GUI_webcam.py:174-179
SaveMotion(s, a) ==
    play_gtts_text([save_frame([s EXCEPT !.motion_saves = @ + 1,
                                         !.motion_save_boxes = s.boxes])
                       EXCEPT !.lst.motion = s.now],
                   "motion", MOTION_COOLDOWN, a)

\* (mutant) the gate is opened first, and the decision to sense motion is taken
\* on the gate as it then is
MotionHeadlessGateFirst(s, significant, a) ==
    LET g == IF s.en THEN s ELSE ReEnable(s)
    IN  IF g.en
        THEN LET m == [g EXCEPT !.motion_sensed = TRUE, !.significant = significant]
             IN  IF SaveMotionAllowedHeadless(m, significant) THEN SaveMotion(m, a) ELSE m
        ELSE g

\* headless.py:174-192
MotionHeadless(s, significant, a) ==
    IF s.en
    THEN LET m == [s EXCEPT !.motion_sensed = TRUE, !.significant = significant]
         IN  IF SaveMotionAllowedHeadless(m, significant) THEN SaveMotion(m, a) ELSE m
    ELSE ReEnable(s)

\* GUI_webcam.py:164-184
MotionGui(s, significant, a) ==
    IF s.en
    THEN LET m == [s EXCEPT !.motion_sensed = TRUE, !.significant = significant]
         IN  IF SaveMotionAllowedGui(m, significant) THEN SaveMotion(m, a) ELSE m
    ELSE ReEnable(s)

\* GUI_webcam.py:189-209: the save sits inside the loop that draws the boxes
RECURSIVE DrawAndSaveGui(_, _)
DrawAndSaveGui(s, i) ==
    IF i > Len(s.pd) THEN s
    ELSE LET d == [s EXCEPT !.boxes = @ + 1]
         IN  DrawAndSaveGui(IF SavePersonAllowed(d) THEN SavePerson(d) ELSE d, i + 1)

\* --------------------------------------------------------- the loop bodies
\* (mutant) the presence loop runs on every frame, over the cached batch
HeadlessBodyPresenceEveryFrame(now, det, significant, a) ==
    LET s0 == [Begin(now) EXCEPT !.write = a.write]
        s1 == IF IsDetectorFrame(frame_count, frame_skip)
              THEN LET r == RunDetector(s0, det)
                   IN  IF r.aborted THEN r ELSE PresenceLoopHeadless(r, 1, a)
              ELSE PresenceLoopHeadless(s0, 1, a)
        s2 == IF s1.aborted THEN s1 ELSE SavePersonHeadless(DrawBoxesHeadless(s1))
    IN  IF s2.aborted THEN s2 ELSE MotionHeadless(s2, significant, a)

\* headless.py:98-194, after a successful read
HeadlessBody(now, det, significant, a) ==
    LET s0 == [Begin(now) EXCEPT !.write = a.write]
        s1 == IF IsDetectorFrame(frame_count, frame_skip)
              THEN LET r == RunDetector(s0, det)
                   IN  IF r.aborted THEN r ELSE PresenceLoopHeadless(r, 1, a)
              ELSE s0
        s2 == IF s1.aborted THEN s1 ELSE SavePersonHeadless(DrawBoxesHeadless(s1))
    IN  IF s2.aborted THEN s2 ELSE MotionHeadless(s2, significant, a)

\* GUI_webcam.py:112-220, after a successful read
GuiBody(now, det, significant, a) ==
    LET s0 == [Begin(now) EXCEPT !.write = a.write]
        s1 == IF IsDetectorFrame(frame_count, frame_skip)
              THEN LET r == RunDetector(s0, det)
                   IN  IF r.aborted THEN r ELSE PresenceLoopGui(r, 1, a)
              ELSE s0
        s2 == IF s1.aborted THEN s1 ELSE MotionGui(s1, significant, a)
    IN  IF s2.aborted THEN s2 ELSE DrawAndSaveGui(s2, 1)

\* what the step leaves behind for the properties: the calls the frame made
Observe(s) ==
    [kind |-> "frame", completed |-> ~s.aborted, now |-> s.now,
     detector_invoked |-> s.detector_invoked,
     detector_failed |-> s.detector_failed,
     returned |-> s.returned,
     gate_set |-> s.gate_set,
     gate_reset |-> s.gate_reset,
     reenabled |-> s.reenabled,
     alerts |-> s.alerts,
     motion_sensed |-> s.motion_sensed,
     significant |-> s.significant,
     motion_saves |-> s.motion_saves,
     motion_save_boxes |-> s.motion_save_boxes,
     person_saves |-> s.person_saves,
     person_save_boxes |-> s.person_save_boxes,
     boxes |-> s.boxes,
     save_failed |-> s.save_failed]

\* The body's writes reach self; headless.py:194 / GUI_webcam.py:220 count the
\* frame when the body ran to its end.  An exception leaves the loop:
\* headless.py:200-204 catches KeyboardInterrupt only and releases the source in
\* finally; GUI_webcam.py:223 is not reached, so update is not scheduled again.
Commit(s) ==
    /\ persistent_detections' = s.pd
    /\ motion_enabled' = s.en
    /\ motion_disabled_until' = s.until
    /\ last_saved_times' = s.lst
    /\ last_audio_time' = s.lat
    /\ last_fired' = s.lf
    /\ clock' = s.t
    /\ frame_count' = IF s.aborted THEN frame_count ELSE frame_count + 1
    /\ status' = IF s.aborted THEN "crashed" ELSE status
    /\ released' = IF s.aborted /\ mode = "headless" THEN TRUE ELSE released
    /\ obs' = Observe(s)
    /\ UNCHANGED <<mode, frame_skip, source, audio>>

\* the inputs of a step, each drawn only where the body reads it
DetectorResults(fc, n) ==
    IF IsDetectorFrame(fc, n)
    THEN {[ok |-> FALSE, batch |-> <<>>]} \cup {[ok |-> TRUE, batch |-> b] : b \in RawBatches}
    ELSE {[ok |-> TRUE, batch |-> <<>>]}
TtsCalls == [d : TtsDelays, out : {"ok", "raise"}]
NoTts == [d |-> 0, out |-> "ok"]
\* det: the detector's result; significant: what motion sensing would find
Inputs(det, significant) ==
    LET cached == IF IsDetectorFrame(frame_count, frame_skip)
                  THEN det.ok /\ FilterAllowed(det.batch) # <<>>
                  ELSE persistent_detections # <<>>
        alert == significant \/ (det.ok /\ FilterAllowed(det.batch) # <<>>)
    IN  [d : IF alert THEN TtsDelays ELSE {0},
         out : IF alert THEN {"ok", "raise"} ELSE {"ok"},
         write : IF frame_count < MaxFaultFrames /\ (significant \/ cached)
                 THEN {"ok", "fail"} ELSE {"ok"}]

\* the run is cut off after MaxFrames frames or MaxDetectorRuns detector calls
MayProcess(fc, n) ==
    /\ fc < MaxFrames
    /\ IsDetectorFrame(fc, n) => fc \div n < MaxDetectorRuns

\* headless.py:92-198: one pass through the while loop with a frame read
HeadlessFrame ==
    /\ mode = "headless" /\ status = "running" /\ MayProcess(frame_count, frame_skip)
    /\ source = "live"
    /\ \E dt \in Deltas, det \in DetectorResults(frame_count, frame_skip) :
         /\ clock + dt <= StartTime + MaxElapsed
         /\ \E significant \in BOOLEAN :
              \E a \in Inputs(det, significant) :
                 Commit(HeadlessBody(clock + dt, det, significant, a))

\* headless.py:93-96: the read fails, the loop breaks, finally releases
HeadlessReadFail ==
    /\ mode = "headless" /\ status = "running"
    /\ status' = "stopped"
    /\ released' = TRUE
    /\ obs' = [kind |-> "readfail", n |-> 0]
    /\ UNCHANGED <<mode, clock, frame_skip, frame_count, persistent_detections,
                   motion_enabled, motion_disabled_until, last_saved_times,
                   last_audio_time, last_fired, source, audio>>

\* headless.py:200-204: Ctrl+C
HeadlessInterrupt ==
    /\ mode = "headless" /\ status = "running"
    /\ status' = "stopped"
    /\ released' = TRUE
    /\ obs' = [kind |-> "stop"]
    /\ UNCHANGED <<mode, clock, frame_skip, frame_count, persistent_detections,
                   motion_enabled, motion_disabled_until, last_saved_times,
                   last_audio_time, last_fired, source, audio>>

\* GUI_webcam.py:105-223: one call of update with a frame read
GuiUpdate ==
    /\ mode = "gui" /\ status = "running" /\ MayProcess(frame_count, frame_skip)
    /\ source = "live"
    /\ \E dt \in Deltas, det \in DetectorResults(frame_count, frame_skip) :
         /\ clock + dt <= StartTime + MaxElapsed
         /\ \E significant \in BOOLEAN :
              \E a \in Inputs(det, significant) :
                 Commit(GuiBody(clock + dt, det, significant, a))

\* GUI_webcam.py:106-110: the read fails, update is scheduled again 10 ms later.
\* n: once the source is exhausted, the calls of update that failed to read,
\* modulo 2 (each one is a new call; nothing else tells them apart)
GuiReadFail ==
    /\ mode = "gui" /\ status = "running"
    /\ obs' = [kind |-> "readfail",
               n |-> IF source = "exhausted" /\ obs.kind = "readfail" THEN 1 - obs.n ELSE 0]
    /\ UNCHANGED <<mode, status, released, clock, frame_skip, frame_count,
                   persistent_detections, motion_enabled, motion_disabled_until,
                   last_saved_times, last_audio_time, last_fired, source, audio>>

\* GUI_webcam.py:225-227: the window is closed
GuiOnClosing ==
    /\ mode = "gui" /\ status \in {"running", "crashed"} /\ ~released
    /\ status' = "stopped"
    /\ released' = TRUE
    /\ obs' = [kind |-> "stop"]
    /\ UNCHANGED <<mode, clock, frame_skip, frame_count, persistent_detections,
                   motion_enabled, motion_disabled_until, last_saved_times,
                   last_audio_time, last_fired, source, audio>>

Next ==
    \/ HeadlessFrame
    \/ HeadlessReadFail
    \/ HeadlessInterrupt
    \/ GuiUpdate
    \/ GuiReadFail
    \/ GuiOnClosing

Spec == Init /\ [][Next]_vars

\* ------------------------------------------------------- the end of the run
\* The same loops with a frame source that can run out: from then on every
\* read fails (cv2.VideoCapture.read returns ret = False).
InitLife == Init /\ frame_skip = FRAME_SKIP

\* the file or stream behind cv2.VideoCapture ends, or the camera is unplugged
SourceEnds ==
    /\ mode \in {"headless", "gui"} /\ status = "running" /\ source = "live"
    /\ source' = "exhausted"
    /\ UNCHANGED <<mode, status, released, clock, frame_skip, frame_count,
                   persistent_detections, motion_enabled, motion_disabled_until,
                   last_saved_times, last_audio_time, last_fired, obs, audio>>

\* frames processed before the source ends or the loop is stopped
MaxLifeFrames == 2

NextLife ==
    \/ frame_count < MaxLifeFrames /\ HeadlessFrame
    \/ HeadlessReadFail
    \/ HeadlessInterrupt
    \/ frame_count < MaxLifeFrames /\ GuiUpdate
    \/ GuiReadFail
    \/ GuiOnClosing
    \/ SourceEnds

\* headless.py:91-92: the while loop keeps taking its next pass;
\* GUI_webcam.py:109,223 and 232: the Tk main loop runs the update it was asked
\* to run. Ctrl+C, the closing of the window and the end of the source are the
\* environment's and are not forced.
FairLife ==
    /\ WF_vars(HeadlessFrame \/ HeadlessReadFail)
    /\ WF_vars(GuiUpdate \/ GuiReadFail)

SpecLife == InitLife /\ [][NextLife]_vars /\ FairLife

\* ------------------------------------------- play_gtts_text on its own
\* A caller that makes calls of play_gtts_text one after the other, all with
\* the same cooldown, at times that do not decrease.
Cooldowns == {PERSON_COOLDOWN_HEADLESS, PERSON_COOLDOWN_GUI, MOTION_COOLDOWN}
\* ticks between two calls
CallDeltas == {1, 10, 19}
\* ticks the sequence of calls lasts at most
MaxCallElapsed == 130

InitThrottle ==
    /\ mode = "tts"
    /\ status = "running"
    /\ released = FALSE
    /\ clock = StartTime
    /\ frame_skip = FRAME_SKIP
    /\ frame_count = 0
    /\ persistent_detections = <<>>
    /\ motion_enabled = TRUE
    /\ motion_disabled_until = 0
    /\ last_saved_times = [motion |-> 0, person |-> 0]
    /\ last_audio_time = 0
    /\ last_fired = [c \in Categories |-> 0]
    /\ obs = NoObs
    /\ source = "live"
    /\ audio = NoAudio

\* tts_player.py:10-54: one call; an exception goes to the caller, who goes on
ThrottleCall ==
    /\ mode = "tts"
    /\ \E c \in Cooldowns, d \in CallDeltas, out \in {"ok", "raise"} :
         LET s == play_gtts_text(Begin(clock), "motion", c, [d |-> d, out |-> out])
         IN  /\ obs.kind = "call" => c = obs.alerts[1].cooldown
             /\ s.t <= StartTime + MaxCallElapsed
             /\ last_audio_time' = s.lat
             /\ last_fired' = s.lf
             /\ clock' = s.t
             /\ obs' = [kind |-> "call", alerts |-> s.alerts]
    /\ UNCHANGED <<mode, status, released, frame_skip, frame_count,
                   persistent_detections, motion_enabled, motion_disabled_until,
                   last_saved_times, source, audio>>

NextThrottle == ThrottleCall

SpecThrottle == InitThrottle /\ [][NextThrottle]_vars

\* ------------------------------------------------- the audio files and threads
\* play_gtts_text called again and again by the main thread, with the playback
\* threads it starts. The call is cut in two at the start of the thread
\* (tts_player.py:48), from where the thread runs alongside the caller.
\* audio.original: detection_sound_original.mp3 exists; audio.adjusted: 0 when
\* detection_sound_adjusted.mp3 does not exist, else the number of the call
\* whose conversion wrote it last; audio.jobs[k]: the thread of the k-th call
\* that fired.

\* playback threads started in one run
MaxJobs == 3
\* ticks between two calls: the same reading of the clock, or a cooldown later
AudioDeltas == {0, PERSON_COOLDOWN_HEADLESS}

InitAudio ==
    /\ mode = "audio"
    /\ status = "running"
    /\ released = FALSE
    /\ clock = StartTime
    /\ frame_skip = FRAME_SKIP
    /\ frame_count = 0
    /\ persistent_detections = <<>>
    /\ motion_enabled = TRUE
    /\ motion_disabled_until = 0
    /\ last_saved_times = [motion |-> 0, person |-> 0]
    /\ last_audio_time = 0
    /\ last_fired = [c \in Categories |-> 0]
    /\ obs = NoObs
    /\ source = "live"
    /\ audio = NoAudio

\* tts_player.py:17-48: the clock is read and the cooldown checked; the speech
\* is written to the original file, ffmpeg -y writes the adjusted file over
\* whatever is there, and the thread is started on the adjusted file's name
AudioCallBegin ==
    /\ mode = "audio" /\ audio.call.pc = "idle"
    /\ \E d \in AudioDeltas :
         LET t == clock + d
             k == Len(audio.jobs) + 1
         IN  /\ t <= StartTime + MaxCallElapsed
             /\ clock' = t
             /\ IF Throttled(t, last_audio_time, PERSON_COOLDOWN_HEADLESS)
                THEN /\ obs' = [kind |-> "audio", step |-> "suppressed", job |-> 0]
                     /\ UNCHANGED audio
                ELSE /\ k <= MaxJobs
                     /\ obs' = [kind |-> "audio", step |-> "dispatched", job |-> k]
                     /\ audio' = [audio EXCEPT
                            !.original = TRUE,
                            !.adjusted = k,
                            !.call = [pc |-> "dispatched", at |-> t, id |-> k],
                            !.jobs = Append(@, [pc |-> "started", at |-> t, plays |-> 0])]
    /\ UNCHANGED <<mode, status, released, frame_skip, frame_count,
                   persistent_detections, motion_enabled, motion_disabled_until,
                   last_saved_times, last_audio_time, last_fired, source>>

\* tts_player.py:50-54: the original file is removed and the time of the call
\* is written to last_audio_time
AudioCallEnd ==
    /\ mode = "audio" /\ audio.call.pc = "dispatched"
    /\ audio' = [audio EXCEPT !.original = FALSE, !.call.pc = "idle"]
    /\ last_audio_time' = audio.call.at
    /\ obs' = [kind |-> "audio", step |-> "returned", job |-> audio.call.id]
    /\ UNCHANGED <<mode, status, released, clock, frame_skip, frame_count,
                   persistent_detections, motion_enabled, motion_disabled_until,
                   last_saved_times, last_fired, source>>

\* tts_player.py:40-43: the thread starts ffplay on the adjusted file and waits
\* for it. plays: the call whose audio the file holds when ffplay opens it, 0
\* when the file is not there (ffplay exits with an error at once)
JobPlay(j) ==
    /\ mode = "audio" /\ j \in DOMAIN audio.jobs /\ audio.jobs[j].pc = "started"
    /\ audio' = [audio EXCEPT !.jobs[j].pc = "playing", !.jobs[j].plays = audio.adjusted]
    /\ obs' = [kind |-> "audio", step |-> "play", job |-> j]
    /\ UNCHANGED <<mode, status, released, clock, frame_skip, frame_count,
                   persistent_detections, motion_enabled, motion_disabled_until,
                   last_saved_times, last_audio_time, last_fired, source>>

\* (mutant) the thread records the end of its playback as the time of the last alert
JobRemoveStamping(j) ==
    /\ mode = "audio" /\ j \in DOMAIN audio.jobs /\ audio.jobs[j].pc = "playing"
    /\ audio' = [audio EXCEPT !.jobs[j].pc = IF audio.adjusted = 0 THEN "failed" ELSE "done",
                              !.adjusted = 0]
    /\ last_audio_time' = clock
    /\ obs' = [kind |-> "audio", step |-> "remove", job |-> j]
    /\ UNCHANGED <<mode, status, released, clock, frame_skip, frame_count,
                   persistent_detections, motion_enabled, motion_disabled_until,
                   last_saved_times, last_fired, source>>

\* tts_player.py:45-46: ffplay has ended; os.remove deletes the adjusted file,
\* whichever call wrote it, and raises in the thread when it is not there
JobRemove(j) ==
    /\ mode = "audio" /\ j \in DOMAIN audio.jobs /\ audio.jobs[j].pc = "playing"
    /\ audio' = [audio EXCEPT !.jobs[j].pc = IF audio.adjusted = 0 THEN "failed" ELSE "done",
                              !.adjusted = 0]
    /\ obs' = [kind |-> "audio", step |-> "remove", job |-> j]
    /\ UNCHANGED <<mode, status, released, clock, frame_skip, frame_count,
                   persistent_detections, motion_enabled, motion_disabled_until,
                   last_saved_times, last_audio_time, last_fired, source>>

NextAudio ==
    \/ AudioCallBegin
    \/ AudioCallEnd
    \/ \E j \in 1..MaxJobs : JobPlay(j)
    \/ \E j \in 1..MaxJobs : JobRemove(j)

SpecAudio == InitAudio /\ [][NextAudio]_vars

\* ------------------------------------------------------------ properties
\* A step that processed a frame (the read succeeded).
FrameStep == obs'.kind = "frame"
HasLabel(batch, l) == \E i \in DOMAIN batch : batch[i] = l
Requested(o, category) == \E i \in DOMAIN o.alerts : o.alerts[i].cat = category

\* C1: in both loops the detector is invoked on a processed frame iff
\* frame_count mod frame_skip = 0 before the frame, a frame that runs to its end
\* adds exactly one to frame_count, and a frame without a detector call leaves
\* persistent_detections as it was.
C1_DetectorCadence ==
    [][FrameStep =>
        /\ obs'.detector_invoked <=> (frame_count % frame_skip = 0)
        /\ obs'.completed => frame_count' = frame_count + 1
        /\ ~obs'.detector_invoked => persistent_detections' = persistent_detections]_vars

\* C1 witness: with frame_skip = 5, the fifth frame has reused a non-empty cache
\* without a detector call.
C1_Witness ==
    /\ obs.kind = "frame" /\ obs.completed /\ ~obs.detector_invoked
    /\ frame_skip = FRAME_SKIP /\ frame_count = FRAME_SKIP
    /\ persistent_detections # <<>>

\* C2 (as claimed): whenever the detector ran and the filtered batch holds a
\* person entry at any position, the frame ends with the gate disabled until
\* now + 20 s.
C2_PersonAnywhereDisables ==
    [][FrameStep /\ obs'.completed /\ obs'.detector_invoked
         /\ HasLabel(persistent_detections', "person")
        => /\ ~motion_enabled'
           /\ motion_disabled_until' = obs'.now + MOTION_DISABLE]_vars

\* C3: on the frame that sets the gate and on every later frame processed at a
\* time before motion_disabled_until, motion sensing is not executed (no
\* background-subtractor call, no motion save, no motion alert request) and
\* motion_enabled is false after the frame.
C3_GateHoldsDuringWindow ==
    (obs.kind = "frame" /\ obs.now < motion_disabled_until)
        => /\ ~obs.motion_sensed
           /\ obs.motion_saves = 0
           /\ ~Requested(obs, "motion")
           /\ ~motion_enabled

\* C3 witness: a frame later than the one that set the gate, still inside the
\* window, ran to its end without touching the gate.
C3_Witness ==
    /\ obs.kind = "frame" /\ obs.completed /\ ~obs.gate_set
    /\ motion_disabled_until - MOTION_DISABLE < obs.now
    /\ obs.now < motion_disabled_until

\* C4: a frame processed at now >= motion_disabled_until that finds the gate
\* disabled and does not set it again ends with motion_enabled true; and an
\* enabled gate stays enabled over every frame that does not set it.
C4_GateReEnables ==
    [][FrameStep /\ obs'.completed /\ ~obs'.gate_set
        => /\ (~motion_enabled /\ obs'.now >= motion_disabled_until) => motion_enabled'
           /\ motion_enabled => motion_enabled']_vars

\* C4 witness: the gate was opened again by a frame processed exactly at
\* motion_disabled_until.
C4_Witness ==
    /\ obs.kind = "frame" /\ obs.completed /\ obs.reenabled
    /\ obs.now = motion_disabled_until /\ motion_enabled

C6_CategoriesIndependent ==
    [][FrameStep =>
        \A i \in DOMAIN obs'.alerts :
            LET r == obs'.alerts[i]
            IN  (/\ r.cat \in {"person", "animal"}
                 /\ last_fired["motion"] > 0 /\ r.at > last_fired["motion"]
                 /\ r.at - last_fired[r.cat] >= r.cooldown)
                    => r.res # "suppressed"]_vars

\* C7: in a sequence of calls with one cooldown, a call is suppressed iff it
\* comes less than the cooldown after the last call that fired; a call that
\* fires writes its files, starts the playback thread and sets last_audio_time
\* to its own time; a suppressed call writes no file, starts no thread and
\* leaves last_audio_time alone.
C7_ThrottleDecision ==
    [][obs'.kind = "call" =>
        LET r == obs'.alerts[1]
        IN  /\ Len(obs'.alerts) = 1
            /\ r.res = "suppressed" <=> (r.at - last_fired[r.cat] < r.cooldown)
            /\ r.res = "fired" =>
                  /\ last_audio_time' = r.at
                  /\ r.thread /\ r.files > 0
            /\ r.res # "fired" =>
                  /\ last_audio_time' = last_audio_time
                  /\ ~r.thread /\ r.files = 0]_vars

\* C7 witness: a call made one tick before the cooldown of an earlier call ends
\* was suppressed.
C7_Witness ==
    /\ obs.kind = "call" /\ obs.alerts[1].res = "suppressed"
    /\ last_audio_time > StartTime
    /\ obs.alerts[1].at - last_audio_time = obs.alerts[1].cooldown - 1

\* C8 (as claimed): a motion frame is saved only on a frame where the gate is
\* enabled, significant motion is seen and 0.2 s have passed since the last
\* motion save; the motion alert is requested only on such a frame.
C8_MotionSaveThrottled ==
    [][FrameStep =>
        /\ obs'.motion_saves > 0 =>
              /\ obs'.motion_sensed /\ obs'.significant
              /\ obs'.now - last_saved_times.motion >= MOTION_SAVE_INTERVAL
        /\ Requested(obs', "motion") => obs'.motion_saves > 0]_vars

\* C9: a frame that runs to its end saves a person/pet frame once when
\* persistent_detections is non-empty and 0.2 s have passed since the last such
\* save, and not at all otherwise; the save sets last_saved_times.person to now;
\* last_saved_times.person changes with a person save only, and
\* last_saved_times.motion with a motion save only.
C9_PersonSaveThrottle ==
    [][FrameStep =>
        /\ obs'.completed =>
              obs'.person_saves =
                  IF /\ persistent_detections' # <<>>
                     /\ obs'.now - last_saved_times.person >= PERSON_SAVE_INTERVAL
                  THEN 1 ELSE 0
        /\ obs'.person_saves <= 1
        /\ obs'.person_saves = 1 => last_saved_times'.person = obs'.now
        /\ obs'.person_saves = 0 => last_saved_times'.person = last_saved_times.person
        /\ obs'.motion_saves = 0 => last_saved_times'.motion = last_saved_times.motion
        /\ obs'.motion_saves > 0 => last_saved_times'.motion = obs'.now]_vars

\* C9 witness: one GUI frame with two cached detections made a motion save and
\* one person/pet save.
C9_Witness ==
    /\ mode = "gui" /\ obs.kind = "frame" /\ obs.completed
    /\ Len(persistent_detections) = 2
    /\ obs.person_saves = 1 /\ obs.motion_saves = 1

\* C10 (as claimed): a detector call that raises leaves persistent_detections
\* as it was and the loop goes on.
C10_DetectorFailureNotFatal ==
    [][FrameStep /\ obs'.detector_failed
        => /\ persistent_detections' = persistent_detections
           /\ status' = "running"]_vars

\* An alert request of the step whose speech synthesis or conversion raised.
AlertRaised(o) == \E i \in DOMAIN o.alerts : o.alerts[i].res = "raised"

\* C11 (as claimed): a frame on which a snapshot write failed or an audio step
\* failed runs to its end, frame_count goes up by one and the loop is still
\* running afterwards, so that later frames are examined.
C11_FailuresTolerated ==
    [][FrameStep /\ (obs'.save_failed \/ AlertRaised(obs'))
        => /\ obs'.completed
           /\ frame_count' = frame_count + 1
           /\ status' = "running"]_vars

\* A playback thread that has not finished with the adjusted file yet.
InFlight(job) == job.pc \in {"started", "playing"}

\* C12 (as claimed): audio jobs never share a temporary file. While the thread
\* of the k-th call has not finished, the adjusted file is there and holds the
\* audio of the k-th call (no other call overwrote it, no other thread deleted
\* it); what a thread plays is the audio of its own call; and no thread finds
\* its file gone when it deletes it.
C12_NoSharedTempFile ==
    \A k \in DOMAIN audio.jobs :
        /\ InFlight(audio.jobs[k]) => audio.adjusted = k
        /\ audio.jobs[k].pc = "playing" => audio.jobs[k].plays = k
        /\ audio.jobs[k].pc # "failed"

C13_EventuallyTerminates ==
    /\ (source = "exhausted") ~> (status # "running")
    /\ [](obs.kind = "stop" => status = "stopped")
    /\ [](status = "stopped" => released)

\* C14 (as claimed): in both loops a failed read skips that frame only: the
\* frame counter, the cache, the gate and every throttle timestamp are as they
\* were, and the loop is still running, the source not released.
C14_ReadFailureTransient ==
    [][obs'.kind = "readfail"
        => /\ UNCHANGED <<frame_count, persistent_detections, motion_enabled,
                          motion_disabled_until, last_saved_times, last_audio_time>>
           /\ status' = "running"
           /\ ~released']_vars

DetectionAlerts(o) == SelectSeq(o.alerts, LAMBDA r : r.cat \in {"person", "animal"})

\* C16 (as claimed): on a detector frame whose filtered batch holds a person
\* and a cat or dog, in any order, the person alert is requested and the
\* animal alert is not; a frame requests at most one detection alert.
C16_PersonBeforeAnimal ==
    [][FrameStep =>
        /\ (/\ obs'.detector_invoked /\ ~obs'.detector_failed
            /\ HasLabel(persistent_detections', "person")
            /\ (HasLabel(persistent_detections', "cat")
                  \/ HasLabel(persistent_detections', "dog")))
              => /\ Requested(obs', "person")
                 /\ ~Requested(obs', "animal")
        /\ Len(DetectionAlerts(obs')) <= 1]_vars

\* C17 (as claimed): a frame that runs to its end without motion sensing was
\* processed at a time before motion_disabled_until.
C17_SkippedOnlyInsideWindow ==
    [][FrameStep /\ obs'.completed /\ ~obs'.motion_sensed
        => obs'.now < motion_disabled_until']_vars

\* C17 (amended): the decision to sense motion is taken on the gate as the
\* presence check left it, before the gate is opened again: a frame that reaches
\* the motion step senses motion iff motion_enabled was true before the frame
\* and the frame did not set the gate. The frame that opens the gate again (the
\* first one at now >= motion_disabled_until) does not sense motion itself.
C17_DecisionBeforeReEnable ==
    [][FrameStep /\ obs'.completed =>
        /\ obs'.motion_sensed <=> (motion_enabled /\ ~obs'.gate_set)
        /\ obs'.reenabled =>
              /\ ~obs'.motion_sensed /\ obs'.motion_saves = 0
              /\ obs'.now >= motion_disabled_until']_vars

\* C17 witness: a frame processed after the end of the window, with no person
\* detected, opened the gate again and did not sense motion.
C17_Witness ==
    /\ obs.kind = "frame" /\ obs.completed /\ obs.reenabled
    /\ ~obs.motion_sensed /\ ~obs.gate_set
    /\ obs.now >= motion_disabled_until /\ motion_enabled
    /\ ~HasLabel(persistent_detections, "person")

\* C18 (as claimed): in both loops a person/pet frame is saved with the boxes
\* of all entries of persistent_detections drawn on it.
C18_AllBoxesBeforePersonSave ==
    [][FrameStep /\ obs'.person_saves > 0
        => obs'.person_save_boxes = Len(persistent_detections')]_vars

\* C19 (as claimed): in both loops a motion frame is saved with no box drawn on
\* it, also when persistent_detections is not empty.
C19_MotionSaveIsRaw ==
    [][FrameStep /\ obs'.motion_saves > 0
        => obs'.motion_save_boxes = 0]_vars

\* The positions of a batch whose label is person, cat or dog.
Kept(batch) == {i \in DOMAIN batch : batch[i] \in {"person", "cat", "dog"}}

\* cache is batch restricted to the labels person, cat and dog, in batch's
\* order: its k-th entry is the entry of batch at the k-th kept position.
IsRestriction(cache, batch) ==
    /\ Len(cache) = Cardinality(Kept(batch))
    /\ \A k \in DOMAIN cache :
          cache[k] = batch[CHOOSE i \in Kept(batch) :
                              Cardinality({j \in Kept(batch) : j <= i}) = k]

\* C22: after a frame on which the detector returned a batch,
\* persistent_detections is that batch restricted to person, cat and dog, in
\* the detector's order, whatever the cache held before; an empty returned
\* batch leaves the cache empty and the frame makes no person/pet save; and
\* after any frame the cache holds no entry with another label.
C22_CacheIsFilteredBatch ==
    [][FrameStep =>
        /\ (obs'.detector_invoked /\ ~obs'.detector_failed) =>
              /\ IsRestriction(persistent_detections', obs'.returned)
              /\ obs'.returned = <<>> =>
                    /\ persistent_detections' = <<>>
                    /\ obs'.person_saves = 0
        /\ \A i \in DOMAIN persistent_detections' :
              persistent_detections'[i] \in {"person", "cat", "dog"}]_vars

\* C22 witness: with frame_skip = 2, a person/pet frame was saved on one of the
\* first two frames (so the cache was not empty when the third frame began),
\* and the third frame's detector call returned a car only: the cache is empty.
C22_Witness ==
    /\ obs.kind = "frame" /\ obs.completed /\ obs.detector_invoked
    /\ frame_skip = 2 /\ frame_count = 3
    /\ last_saved_times.person > 0
    /\ obs.returned = <<"car">>
    /\ persistent_detections = <<>> /\ obs.person_saves = 0

\* A step of play_audio_file, the target of the playback thread
\* (tts_player.py:39-46); every other step of the audio specification is the
\* caller's, that is the frame loop's thread.
WorkerStep == obs'.kind = "audio" /\ obs'.step \in {"play", "remove"}

\* C21 (as claimed), for the audio jobs: the speech synthesis (which writes the
\* original file) and the speed conversion (which writes the adjusted file) are
\* steps of the background worker, not of the thread that called
\* play_gtts_text.
C21_AudioWorkInBackground ==
    [][(\/ audio'.original /\ ~audio.original
        \/ audio'.adjusted # 0 /\ audio'.adjusted # audio.adjusted)
        => WorkerStep]_vars

====
